---- MODULE Spec2Model ----
(***************************************************************************)
(* Model of src/index.js: extraction of translation keys from markup      *)
(* trees (parseHTMLAst, extractTranslationsFromString), from program       *)
(* syntax trees (parseTSAst.parseFiles) and their filing against the      *)
(* translation catalog (createJSONTranslations).                          *)
(*                                                                         *)
(* JavaScript strings are sequences of one-character strings, so that     *)
(* indexOf, lastIndexOf, substring, trim, split and replace are computed  *)
(* character by character.  JavaScript values are tagged records:         *)
(*   [ty |-> "undefined"], [ty |-> "string", s |-> chars],                *)
(*   [ty |-> "array", elems |-> seq], [ty |-> "object", f |-> fields],    *)
(*   [ty |-> "node", kind |-> k, f |-> fields]  (a syntax-tree node).     *)
(***************************************************************************)
EXTENDS Naturals, Integers, Sequences, FiniteSets, TLC

VARIABLES
    \* extractTranslationsFromString
    value, pipeResults, pipePc,
    \* parseHTMLAst
    trees, nodesToIterate, results, dequeued, extractedOn, htmlPc,
    \* parseTSAst
    rootNode, tsStack, parseResults, tsTranslationsKeys, callLog, visited, tsPc,
    \* createJSONTranslations
    translationsObject, translationKeys, keyIndex,
    resolvedTranslations, unresolvedTranslations, resPc

pipeVars == <<value, pipeResults, pipePc>>
htmlVars == <<trees, nodesToIterate, results, dequeued, extractedOn, htmlPc>>
tsVars   == <<rootNode, tsStack, parseResults, tsTranslationsKeys, callLog,
              visited, tsPc>>
resVars  == <<translationsObject, translationKeys, keyIndex,
              resolvedTranslations, unresolvedTranslations, resPc>>
vars     == <<pipeVars, htmlVars, tsVars, resVars>>

---------------------------------------------------------------------------
(* JavaScript values *)

Undef == [ty |-> "undefined"]

Str(s) == [ty |-> "string", s |-> s]

Arr(es) == [ty |-> "array", elems |-> es]

Obj(fs) == [ty |-> "object", f |-> fs]

EmptyObj == [ty |-> "object", f |-> <<>>]

\* a thrown TypeError, as the result of an expression
Threw == [ty |-> "throw"]

\* JavaScript truthiness of the values the program tests
Truthy(v) ==
    CASE v.ty = "undefined" -> FALSE
      [] v.ty = "throw"     -> FALSE
      [] v.ty = "string"    -> v.s # <<>>
      [] OTHER              -> TRUE

IsArray(v) == v.ty = "array"

---------------------------------------------------------------------------
(* Each component is checked on its own; the variables of the components   *)
(* that do not run stay at these values                                    *)

PipeIdle == value = <<>> /\ pipeResults = <<>> /\ pipePc = "idle"

HtmlIdle ==
    /\ trees = <<>> /\ nodesToIterate = <<>> /\ results = <<>>
    /\ dequeued = <<>> /\ extractedOn = <<>> /\ htmlPc = "idle"

TsIdle ==
    /\ rootNode = Undef /\ tsStack = <<>> /\ parseResults = <<>>
    /\ tsTranslationsKeys = <<>>
    /\ callLog = <<>> /\ visited = <<>> /\ tsPc = "idle"

ResIdle ==
    /\ translationsObject = EmptyObj /\ translationKeys = <<>> /\ keyIndex = 0
    /\ resolvedTranslations = EmptyObj /\ unresolvedTranslations = EmptyObj
    /\ resPc = "idle"

---------------------------------------------------------------------------
(* JavaScript string primitives, on sequences of characters; indices are   *)
(* the 0-based indices of JavaScript                                       *)

Max(a, b) == IF a >= b THEN a ELSE b

Min(a, b) == IF a <= b THEN a ELSE b

\* the characters /\s/ matches, among the characters of the model
WhiteSpace == {" ", "\n", "\t"}

\* String.prototype.indexOf(kw): first index where kw occurs, or -1
IndexOf(s, kw) ==
    LET hits == {i \in 0..(Len(s) - Len(kw)) :
                    SubSeq(s, i + 1, i + Len(kw)) = kw}
    IN IF hits = {} THEN -1 ELSE CHOOSE i \in hits : \A j \in hits : i <= j

\* String.prototype.lastIndexOf(ch, from) for a one-character ch: the last
\* index <= from holding ch, or -1; a negative from is taken as 0
LastIndexOfFrom(s, ch, from) ==
    LET top  == Min(Max(from, 0), Len(s) - 1)
        hits == {i \in 0..top : s[i + 1] = ch}
    IN IF hits = {} THEN -1 ELSE CHOOSE i \in hits : \A j \in hits : i >= j

\* String.prototype.lastIndexOf(ch): no from index
LastIndexOf(s, ch) == LastIndexOfFrom(s, ch, Len(s))

\* String.prototype.substring(a, b): both clamped to 0..length, swapped
\* when a > b
Substring(s, a, b) ==
    LET ca == Min(Max(a, 0), Len(s))
        cb == Min(Max(b, 0), Len(s))
    IN SubSeq(s, Min(ca, cb) + 1, Max(ca, cb))

\* String.prototype.substring(a): to the end of the string
SubstringFrom(s, a) == Substring(s, a, Len(s))

\* String.prototype.trim
Trim(s) ==
    LET keep == {i \in 1..Len(s) : s[i] \notin WhiteSpace}
    IN IF keep = {} THEN <<>>
       ELSE LET lo == CHOOSE i \in keep : \A j \in keep : i <= j
                hi == CHOOSE i \in keep : \A j \in keep : i >= j
            IN SubSeq(s, lo, hi)

RECURSIVE StripWhiteSpace(_)
\* key.replace(/\s/g, '')
StripWhiteSpace(s) ==
    IF s = <<>> THEN <<>>
    ELSE IF Head(s) \in WhiteSpace THEN StripWhiteSpace(Tail(s))
         ELSE <<Head(s)>> \o StripWhiteSpace(Tail(s))

RECURSIVE ReplaceNewlines(_)
\* key.replace(/\n/g): the replacement is missing, so each newline becomes
\* the text "undefined"
ReplaceNewlines(s) ==
    IF s = <<>> THEN <<>>
    ELSE IF Head(s) = "\n"
         THEN <<"u","n","d","e","f","i","n","e","d">> \o ReplaceNewlines(Tail(s))
         ELSE <<Head(s)>> \o ReplaceNewlines(Tail(s))

UNABLE_TO_RESOLVE_VALUE ==
    <<"U","N","A","B","L","E","_","T","O","_","R","E","S","O","L","V","E",
      "_","V","A","L","U","E">>

\* prettifyKey(key): a TypeError when key is not a string
prettifyKey(key) ==
    IF key.ty # "string" THEN Threw
    ELSE Str(ReplaceNewlines(StripWhiteSpace(key.s)))

---------------------------------------------------------------------------
(* extractTranslationsFromString *)

translateKeyword == <<"|"," ","t","r","a","n","s","l","a","t","e">>

\* the key of one occurrence of the keyword, from the text before it
\* (lines 195-200)
PipeKey(before) ==
    LET attrs == Trim(before)
        end   == Max(LastIndexOf(attrs, "'"), LastIndexOf(attrs, "\""))
        start == Max(LastIndexOfFrom(attrs, "'", end - 1),
                     LastIndexOfFrom(attrs, "\"", end - 1)) + 1
        unresolvedValue == UNABLE_TO_RESOLVE_VALUE \o <<":", " ">>
                             \o prettifyKey(Str(attrs)).s
        translationKey  == Trim(Substring(attrs, start, end))
    IN IF translationKey # <<>> THEN translationKey ELSE unresolvedValue

RECURSIVE extractTranslationsFromString(_)
\* the while loop: one key per occurrence of the keyword, scanning on from
\* just past each occurrence
extractTranslationsFromString(currentString) ==
    LET currentTranslateIndex == IndexOf(currentString, translateKeyword)
    IN IF currentTranslateIndex = -1 THEN <<>>
       ELSE <<PipeKey(Substring(currentString, 0, currentTranslateIndex))>>
            \o extractTranslationsFromString(
                 SubstringFrom(currentString,
                               currentTranslateIndex + Len(translateKeyword)))

---------------------------------------------------------------------------
(* Specification of extractTranslationsFromString: the input is any text   *)
(* made of at most MaxMarkers stretches of at most MaxPre characters in    *)
(* all, each followed by the keyword, and the two texts of the examples    *)

MaxPre == 5

MaxMarkers == 2

PipeAlphabet == {"'", "\"", "k", " "}

PipeTexts(n) == UNION {[1..m -> PipeAlphabet] : m \in 0..n}

ExampleNoQuote == <<"{","{"," ">> \o translateKeyword \o <<" ","}","}">>

ExampleNavHome ==
    <<"{","{"," ","'","n","a","v",".","h","o","m","e","'"," ">>
      \o translateKeyword \o <<" ","}","}">>

RECURSIVE PipeInputs(_, _)
\* the texts with at most n keywords and at most len other characters
PipeInputs(n, len) ==
    IF n = 0 THEN PipeTexts(len)
    ELSE PipeTexts(len) \cup
         UNION {{pre \o translateKeyword \o rest :
                    rest \in PipeInputs(n - 1, len - Len(pre))} :
                pre \in PipeTexts(len)}

PipeInit ==
    /\ HtmlIdle /\ TsIdle /\ ResIdle
    /\ value \in PipeInputs(MaxMarkers, MaxPre) \cup {ExampleNoQuote, ExampleNavHome}
    /\ pipeResults = <<>>
    /\ pipePc = "start"

\* a call of extractTranslationsFromString(value)
Scan ==
    /\ pipePc = "start"
    /\ pipeResults' = extractTranslationsFromString(value)
    /\ pipePc' = "done"
    /\ UNCHANGED <<value, htmlVars, tsVars, resVars>>

PipeNext == Scan

PipeSpec == PipeInit /\ [][PipeNext]_vars

---------------------------------------------------------------------------
(* Claims about extractTranslationsFromString *)

RECURSIVE Befores(_)
\* the texts that precede the successive occurrences of the keyword
Befores(s) ==
    LET i == IndexOf(s, translateKeyword)
    IN IF i = -1 THEN <<>>
       ELSE <<SubSeq(s, 1, i)>>
            \o Befores(SubSeq(s, i + Len(translateKeyword) + 1, Len(s)))

QuoteChars == {"'", "\""}

\* the positions (from 1) of the quote characters of a text
QuotePositions(a) == {i \in 1..Len(a) : a[i] \in QuoteChars}

SetMax(S) == CHOOSE i \in S : \A j \in S : i >= j

\* the UnresolvedMarker that embeds the whitespace-stripped text
MarkerOf(a) == UNABLE_TO_RESOLVE_VALUE \o <<":", " ">> \o StripWhiteSpace(a)

IsMarker(r) ==
    /\ Len(r) >= Len(UNABLE_TO_RESOLVE_VALUE)
    /\ SubSeq(r, 1, Len(UNABLE_TO_RESOLVE_VALUE)) = UNABLE_TO_RESOLVE_VALUE

Blank(a) == Trim(a) = <<>>

\* the text between the rightmost quote and the nearest earlier quote of the
\* same kind; <<>> when there is no such pair
MatchingSpan(a) ==
    LET q == QuotePositions(a)
    IN IF q = {} THEN <<>>
       ELSE LET e == SetMax(q)
                m == {i \in q : i < e /\ a[i] = a[e]}
            IN IF m = {} THEN <<>> ELSE SubSeq(a, SetMax(m) + 1, e - 1)

HasMatchingPair(a) ==
    LET q == QuotePositions(a)
    IN q # {} /\ \E i \in q : i < SetMax(q) /\ a[i] = a[SetMax(q)]

\* the last two quote characters of the text are of the same kind
LastTwoQuotesMatch(a) ==
    LET q == QuotePositions(a)
    IN /\ Cardinality(q) >= 2
       /\ a[SetMax(q \ {SetMax(q)})] = a[SetMax(q)]

\* C5: for each occurrence of `| translate`, when the trimmed text before it
\* holds no quote or a single quote, or the span between its two quotes is
\* blank, the candidate is the UnresolvedMarker of that text; a candidate
\* that is not a marker comes from a quote pair with non-blank content
PipeUnquotedYieldsMarker ==
    pipePc = "done" =>
        /\ Len(pipeResults) = Len(Befores(value))
        /\ \A i \in 1..Len(Befores(value)) :
              LET attrs == Trim(Befores(value)[i])
                  q     == QuotePositions(attrs)
              IN /\ Cardinality(q) <= 1 => pipeResults[i] = MarkerOf(attrs)
                 /\ (LastTwoQuotesMatch(attrs) /\ Blank(MatchingSpan(attrs)))
                       => pipeResults[i] = MarkerOf(attrs)
                 /\ ~IsMarker(pipeResults[i]) => Cardinality(q) >= 2

\* C8: for each occurrence of `| translate`, the candidate is the text
\* between the rightmost quote of the trimmed text before it and the nearest
\* earlier quote of the same kind, a quote of the other kind in between
\* being part of the key
PipeKeyBetweenMatchingQuotes ==
    pipePc = "done" =>
        \A i \in 1..Len(Befores(value)) :
            LET attrs == Trim(Befores(value)[i])
            IN (HasMatchingPair(attrs) /\ ~Blank(MatchingSpan(attrs)))
                  => pipeResults[i] = Trim(MatchingSpan(attrs))

---------------------------------------------------------------------------
(* parseHTMLAst.  The forest is a table of nodes 1..n; a node's parent is  *)
(* an earlier node (0: a top-level node) and its children are ordered by   *)
(* number.  An entry of the list may be an array of nodes instead of a     *)
(* node (Array.isArray, line 74).                                          *)

MaxNodes == 3

Chars_translate == <<"t","r","a","n","s","l","a","t","e">>

\* the contents a node of the model may have
NodeContents ==
    { \* <p translate=" k ">: the direct attribute
      [isArray |-> FALSE, hasGetAttribute |-> TRUE,
       rawAttrs |-> Str(Chars_translate \o <<"=", "\"", " ", "k", " ", "\"">>),
       translate |-> Str(<<" ", "k", " ">>), rawText |-> Str(<<>>)],
      \* <p [a]="'k' | translate">: the pipe form in the attribute text
      [isArray |-> FALSE, hasGetAttribute |-> TRUE,
       rawAttrs |-> Str(<<"'", "k", "'", " ">> \o translateKeyword),
       translate |-> Undef, rawText |-> Str(<<>>)],
      \* <p>: neither attribute text nor inner text
      [isArray |-> FALSE, hasGetAttribute |-> TRUE,
       rawAttrs |-> Str(<<>>), translate |-> Undef, rawText |-> Str(<<>>)],
      \* a text node {{ 'k' | translate }}
      [isArray |-> FALSE, hasGetAttribute |-> FALSE,
       rawAttrs |-> Undef, translate |-> Undef,
       rawText |-> Str(<<"'", "k", "'", " ">> \o translateKeyword)],
      \* a text node without the word translate
      [isArray |-> FALSE, hasGetAttribute |-> FALSE,
       rawAttrs |-> Undef, translate |-> Undef, rawText |-> Str(<<"k">>)],
      \* an array of nodes
      [isArray |-> TRUE, hasGetAttribute |-> FALSE,
       rawAttrs |-> Undef, translate |-> Undef, rawText |-> Undef] }

\* only elements and arrays hold nodes
MayHoldNodes(c) == c.isArray \/ c.hasGetAttribute

Forests ==
    UNION {{t \in [1..n -> [parent : 0..n, content : NodeContents]] :
              \A i \in 1..n :
                 /\ t[i].parent < i
                 /\ t[i].parent # 0 => MayHoldNodes(t[t[i].parent].content)} :
           n \in 0..MaxNodes}

RECURSIVE SortedSeq(_)
\* the numbers of a set in increasing order
SortedSeq(S) ==
    IF S = {} THEN <<>>
    ELSE LET m == CHOOSE i \in S : \A j \in S : i <= j
         IN <<m>> \o SortedSeq(S \ {m})

\* currentNode.childNodes, or the elements of the array currentNode
ChildNodes(t, n) == SortedSeq({i \in DOMAIN t : t[i].parent = n})

\* getAttributeTranslation(node)
getAttributeTranslation(node) ==
    IF ~node.hasGetAttribute THEN <<>>
    ELSE IF Truthy(node.translate) THEN <<Trim(node.translate.s)>>
    ELSE extractTranslationsFromString(node.rawAttrs.s)

\* getTextTranslation(node)
getTextTranslation(node) ==
    IF ~Truthy(node.rawText) \/ IndexOf(node.rawText.s, Chars_translate) = -1
    THEN <<>>
    ELSE extractTranslationsFromString(node.rawText.s)

\* a push that puts the nodes before the waiting ones
PushInFront(queue, nodes) == nodes \o queue

\* nodesToIterate.push(...nodes)
Push(queue, nodes) == queue \o nodes

HtmlInit ==
    /\ PipeIdle /\ TsIdle /\ ResIdle
    /\ trees \in Forests
    /\ nodesToIterate = ChildNodes(trees, 0)
    /\ results = <<>>
    /\ dequeued = <<>>
    /\ extractedOn = <<>>
    /\ htmlPc = "loop"

\* one turn of the while loop (lines 70-85)
Dequeue ==
    /\ htmlPc = "loop"
    /\ nodesToIterate # <<>>
    /\ LET currentNode   == Head(nodesToIterate)
           node          == trees[currentNode].content
           nodes         == ChildNodes(trees, currentNode)
           hasChildNodes == ~node.isArray /\ nodes # <<>>
           carries       == Truthy(node.rawAttrs) \/ Truthy(node.rawText)
       IN /\ nodesToIterate' =
                IF node.isArray \/ hasChildNodes
                THEN Push(Tail(nodesToIterate), nodes)
                ELSE Tail(nodesToIterate)
          /\ results' =
                IF carries
                THEN results \o getAttributeTranslation(node)
                             \o getTextTranslation(node)
                ELSE results
          /\ extractedOn' =
                IF carries THEN Append(extractedOn, currentNode) ELSE extractedOn
          /\ dequeued' = Append(dequeued, currentNode)
    /\ UNCHANGED <<trees, htmlPc, pipeVars, tsVars, resVars>>

\* the loop ends on an empty list and the results are returned (line 87)
ReturnResults ==
    /\ htmlPc = "loop"
    /\ nodesToIterate = <<>>
    /\ htmlPc' = "done"
    /\ UNCHANGED <<trees, nodesToIterate, results, dequeued, extractedOn,
                   pipeVars, tsVars, resVars>>

HtmlNext == Dequeue \/ ReturnResults

HtmlSpec == HtmlInit /\ [][HtmlNext]_vars

\* what every turn of the loop does, and no other step: it takes the head of
\* a non-empty list
LoopTurn ==
    /\ htmlPc = "loop"
    /\ nodesToIterate # <<>>
    /\ dequeued' = Append(dequeued, Head(nodesToIterate))

\* the loop is sequential code: it takes its next turn whenever the list is
\* not empty, and returns when it is
HtmlFairSpec == HtmlSpec /\ WF_dequeued(LoopTurn) /\ WF_htmlPc(ReturnResults)

---------------------------------------------------------------------------
(* Claims about parseHTMLAst *)

RECURSIVE LevelOrder(_, _)
\* the nodes level by level, from the nodes of one level
LevelOrder(t, level) ==
    IF level = <<>> THEN <<>>
    ELSE LET F[i \in 0..Len(level)] ==
                 IF i = 0 THEN <<>> ELSE F[i - 1] \o ChildNodes(t, level[i])
         IN level \o LevelOrder(t, F[Len(level)])

BreadthFirst(t) == LevelOrder(t, ChildNodes(t, 0))

Carries(c) == Truthy(c.rawAttrs) \/ Truthy(c.rawText)

Occurrences(q, n) == Cardinality({i \in 1..Len(q) : q[i] = n})

HtmlTraversed ==
    /\ htmlPc = "done"
    /\ nodesToIterate = <<>>
    /\ dequeued = BreadthFirst(trees)
    /\ \A n \in DOMAIN trees :
          /\ Occurrences(dequeued, n) = 1
          /\ Occurrences(extractedOn, n) =
                (IF Carries(trees[n].content) THEN 1 ELSE 0)

\* C10: the traversal of any finite forest ends with an empty work queue,
\* having dequeued every node exactly once in breadth-first order and
\* applied the per-node extraction exactly once to each node that carries
\* raw attribute text or raw inner text, and to no other node
HtmlTraversalTerminates == <>[]HtmlTraversed

\* a forest whose breadth-first order differs from its depth-first order
\* has been traversed, with and without extraction
HtmlTraversalWitness ==
    /\ htmlPc = "done"
    /\ dequeued = <<1, 3, 2>>
    /\ trees[2].parent = 1
    /\ extractedOn = <<1, 2>>
    /\ results # <<>>

---------------------------------------------------------------------------
(* createJSONTranslations.  An object is a function from property names    *)
(* (strings, as character sequences) to values.  The property names of     *)
(* the model are plain words: none is an index, "length" or a name found   *)
(* on a prototype, so a property read finds own properties only.           *)

MaxDepth == 3

MaxKeys == 2

RECURSIVE Split(_)
\* key.split('.')
Split(s) ==
    LET i == IndexOf(s, <<".">>)
    IN IF i = -1 THEN <<s>>
       ELSE <<Substring(s, 0, i)>> \o Split(SubstringFrom(s, i + 1))

RECURSIVE Join(_)
\* the key that names a path: its segments with a dot between them
Join(path) ==
    IF Len(path) = 1 THEN path[1]
    ELSE path[1] \o <<".">> \o Join(Tail(path))

\* acc[current]
Prop(v, k) ==
    IF v.ty = "object" /\ k \in DOMAIN v.f THEN v.f[k] ELSE Undef

\* isObject(value) of lodash
IsObject(v) == v.ty \in {"object", "array", "node"}

\* object[key] = value
Assign(obj, k, v) ==
    Obj([x \in DOMAIN obj.f \cup {k} |-> IF x = k THEN v ELSE obj.f[x]])

\* Object.assign(target, source): the top-level properties of source
\* overwrite those of target
ObjectAssign(target, source) ==
    Obj([x \in DOMAIN target.f \cup DOMAIN source.f |->
            IF x \in DOMAIN source.f THEN source.f[x] ELSE target.f[x]])

RECURSIVE WalkStay(_, _)
\* a walk that stays on the last value found when a segment is missing
WalkStay(acc, path) ==
    IF path = <<>> THEN acc
    ELSE WalkStay(IF Truthy(Prop(acc, Head(path)))
                  THEN Prop(acc, Head(path)) ELSE acc,
                  Tail(path))

RECURSIVE Walk(_, _)
\* path.reduce((acc, current) => acc ? acc[current] : "", acc)
Walk(acc, path) ==
    IF path = <<>> THEN acc
    ELSE Walk(IF Truthy(acc) THEN Prop(acc, Head(path)) ELSE Str(<<>>),
              Tail(path))

RECURSIVE Set(_, _, _)
\* _.set(object, path, value): a value on the way that is not an object is
\* replaced by a new object.  The value written is never changed later
\* through the catalog object it may share, since the only writes below a
\* shared object store the value already there.
Set(obj, path, v) ==
    IF Len(path) = 1 THEN Assign(obj, path[1], v)
    ELSE LET objValue == Prop(obj, path[1])
             nested   == IF IsObject(objValue) THEN objValue ELSE EmptyObj
         IN Assign(obj, path[1], Set(nested, Tail(path), v))

RECURSIVE filterResults(_)
\* [...new Set([...results])]: the first occurrence of each value, in order
filterResults(rs) ==
    IF rs = <<>> THEN <<>>
    ELSE LET front == filterResults(SubSeq(rs, 1, Len(rs) - 1))
             last  == rs[Len(rs)]
         IN IF \E i \in 1..Len(front) : front[i] = last
            THEN front ELSE Append(front, last)

Segments == {<<"a">>, <<"b">>}

Greeting == <<"H", "i">>

\* the keys of the model: the paths of at most MaxDepth segments
Keys == {Join(p) : p \in UNION {[1..n -> Segments] : n \in 1..MaxDepth}}

\* what the extractors hand over: keys, and undefined (an array literal of
\* the program with an element that has no text, line 127)
Candidates == {Str(k) : k \in Keys} \cup {Undef}

\* the documents read from en_US.json and featureFlags.json
Documents ==
    { EmptyObj,
      Obj([k \in {<<"a">>} |-> Obj([j \in {<<"b">>} |-> Str(Greeting)])]),
      Obj([k \in {<<"a">>} |-> Obj([j \in {<<"b">>} |-> Str(<<>>)])]),
      Obj([k \in {<<"a">>} |-> Str(Greeting)]),
      Obj([k \in {<<"b">>} |->
             Obj([j \in {<<"a">>} |-> Obj([i \in {<<"b">>} |-> Str(Greeting)])])]) }

ResInit ==
    /\ PipeIdle /\ HtmlIdle /\ TsIdle
    /\ \E en_US \in Documents, featureFlags \in Documents :
          translationsObject =
             ObjectAssign(ObjectAssign(EmptyObj, en_US), featureFlags)
    /\ \E raw \in UNION {[1..n -> Candidates] : n \in 0..MaxKeys} :
          translationKeys = filterResults(raw)
    /\ keyIndex = 0
    /\ resolvedTranslations = EmptyObj
    /\ unresolvedTranslations = EmptyObj
    /\ resPc = "reduce"

\* one call of the reducer (lines 231-244) on a string
ResolveKey ==
    /\ resPc = "reduce"
    /\ keyIndex < Len(translationKeys)
    /\ translationKeys[keyIndex + 1].ty = "string"
    /\ LET key   == translationKeys[keyIndex + 1]
           path  == Split(key.s)
           val   == Walk(translationsObject, path)
       IN IF Truthy(val)
          THEN /\ resolvedTranslations' = Set(resolvedTranslations, path, val)
               /\ UNCHANGED unresolvedTranslations
          ELSE /\ unresolvedTranslations' = Set(unresolvedTranslations, path, key)
               /\ UNCHANGED resolvedTranslations
    /\ keyIndex' = keyIndex + 1
    /\ UNCHANGED <<translationsObject, translationKeys, resPc,
                   pipeVars, htmlVars, tsVars>>

\* the reducer called on a key that is not a string: key.split is not a
\* function, and the program ends with the TypeError
ResolveThrows ==
    /\ resPc = "reduce"
    /\ keyIndex < Len(translationKeys)
    /\ translationKeys[keyIndex + 1].ty # "string"
    /\ resPc' = "threw"
    /\ UNCHANGED <<translationsObject, translationKeys, keyIndex,
                   resolvedTranslations, unresolvedTranslations,
                   pipeVars, htmlVars, tsVars>>

\* the two mappings are written out (lines 249-250)
WriteFiles ==
    /\ resPc = "reduce"
    /\ keyIndex = Len(translationKeys)
    /\ resPc' = "done"
    /\ UNCHANGED <<translationsObject, translationKeys, keyIndex,
                   resolvedTranslations, unresolvedTranslations,
                   pipeVars, htmlVars, tsVars>>

ResNext == ResolveKey \/ ResolveThrows \/ WriteFiles

ResSpec == ResInit /\ [][ResNext]_vars

---------------------------------------------------------------------------
(* Claims about createJSONTranslations *)

RECURSIVE GetPath(_, _)
\* the value a mapping holds at a path, undefined when a segment is missing
GetPath(v, path) ==
    IF path = <<>> THEN v
    ELSE IF v.ty = "object" /\ Head(path) \in DOMAIN v.f
         THEN GetPath(v.f[Head(path)], Tail(path))
         ELSE Undef

NonEmpty(v) == v.ty = "object" \/ (v.ty = "string" /\ v.s # <<>>)

RECURSIVE Leaves(_)
\* the leaves of a mapping, each with its path
Leaves(v) ==
    IF v.ty # "object" THEN {[path |-> <<>>, val |-> v]}
    ELSE UNION {{[path |-> <<k>> \o l.path, val |-> l.val] : l \in Leaves(v.f[k])} :
                k \in DOMAIN v.f}

\* the keys the reducer has been called on
Filed == {translationKeys[i] : i \in 1..keyIndex}

\* the step is a call of the reducer
ReducerStep == resPc = "reduce" /\ keyIndex' = keyIndex + 1

\* C4: the Resolver files a candidate into exactly one mapping: into
\* Resolved, at the candidate's path and with the catalog's value, when the
\* catalog holds a non-empty value at that path, and otherwise into
\* Unresolved, at that path and with the candidate itself; the other mapping
\* is left as it was
ResolverFilesInExactlyOne ==
    [][ReducerStep =>
          LET key   == translationKeys[keyIndex + 1]
              path  == Split(key.s)
              found == GetPath(translationsObject, path)
          IN IF NonEmpty(found)
             THEN /\ GetPath(resolvedTranslations', path) = found
                  /\ unresolvedTranslations' = unresolvedTranslations
                  /\ GetPath(unresolvedTranslations', path) # key
             ELSE /\ GetPath(unresolvedTranslations', path) = key
                  /\ resolvedTranslations' = resolvedTranslations
                  /\ ~NonEmpty(GetPath(resolvedTranslations', path))]_vars

\* a key found below a catalog string's path was filed as unresolved, after
\* a key that was found
ResolverWitness ==
    /\ resPc = "done"
    /\ translationKeys = <<Str(<<"a", ".", "b">>), Str(<<"a", ".", "b", ".", "a">>)>>
    /\ GetPath(resolvedTranslations, <<<<"a">>, <<"b">>>>) = Str(Greeting)
    /\ GetPath(unresolvedTranslations, <<<<"a">>, <<"b">>, <<"a">>>>)
          = Str(<<"a", ".", "b", ".", "a">>)

\* C6: every leaf of Resolved is a non-empty value that the catalog holds at
\* the same path, every leaf of Unresolved is the string of a filed
\* candidate whose lookup found no value, and the two mappings share no
\* leaf path
ResultSetInvariant ==
    /\ \A l \in Leaves(resolvedTranslations) :
          /\ l.val.ty = "string" /\ l.val.s # <<>>
          /\ GetPath(translationsObject, l.path) = l.val
    /\ \A l \in Leaves(unresolvedTranslations) :
          /\ l.val \in Filed
          /\ Split(l.val.s) = l.path
          /\ ~NonEmpty(GetPath(translationsObject, l.path))
    /\ {l.path : l \in Leaves(resolvedTranslations)}
          \cap {l.path : l \in Leaves(unresolvedTranslations)} = {}

\* C9: once the Resolver has processed the candidates, reading any
\* candidate's path in the mapping it was filed in gives its filed value:
\* no filing overwrote or removed another candidate's entry
EveryCandidateKept ==
    resPc = "done" =>
        \A i \in 1..Len(translationKeys) :
            LET key   == translationKeys[i]
                path  == Split(key.s)
                found == GetPath(translationsObject, path)
            IN IF NonEmpty(found)
               THEN GetPath(resolvedTranslations, path) = found
               ELSE GetPath(unresolvedTranslations, path) = key

---------------------------------------------------------------------------
(* parseTSAst.  A node of the program tree is [ty |-> "node", kind, f],    *)
(* f its properties.  The kinds are numbered as in the SyntaxKind          *)
(* enumeration in which CallExpression is 207; the program reads the kind  *)
(* only to compare it with 207.                                            *)

CallExpression == 207

ArrayLiteralExpression   == CallExpression - 4
ObjectLiteralExpression  == CallExpression - 3
PropertyAccessExpression == CallExpression - 2
NewExpression            == CallExpression + 1
BinaryExpression         == CallExpression + 13
ConditionalExpression    == CallExpression + 14
ExpressionStatement      == CallExpression + 30
SourceFile               == CallExpression + 96
Identifier               == CallExpression - 128
ThisKeyword              == CallExpression - 99
StringLiteral            == CallExpression - 197
Token                    == CallExpression - 150

Node(kind, fields) == [ty |-> "node", kind |-> kind, f |-> fields]

Lit(chars) == Node(StringLiteral, [text |-> Str(chars)])

Ident(chars) == Node(Identifier, [escapedText |-> Str(chars), text |-> Str(chars)])

This == Node(ThisKeyword, <<>>)

PunctuationToken == Node(Token, <<>>)

Access(e, name) ==
    Node(PropertyAccessExpression, [expression |-> e, name |-> Ident(name)])

Call(callee, args) ==
    Node(CallExpression, [expression |-> callee, arguments |-> Arr(args)])

New(callee, args) ==
    Node(NewExpression, [expression |-> callee, arguments |-> Arr(args)])

Cond(c, t, e) ==
    Node(ConditionalExpression,
         [condition |-> c, questionToken |-> PunctuationToken, whenTrue |-> t,
          colonToken |-> PunctuationToken, whenFalse |-> e])

Binary(l, r) ==
    Node(BinaryExpression,
         [left |-> l, operatorToken |-> PunctuationToken, right |-> r])

ArrayLit(es) == Node(ArrayLiteralExpression, [elements |-> Arr(es)])

ObjectLit == Node(ObjectLiteralExpression, [properties |-> Arr(<<>>)])

ExprStatement(e) == Node(ExpressionStatement, [expression |-> e])

File(stmts) ==
    Node(SourceFile, [statements |-> Arr(stmts), endOfFileToken |-> PunctuationToken])

\* the properties forEachChild visits, in its order, for the kinds of the model
ChildFields(kind) ==
    CASE kind = SourceFile -> <<"statements", "endOfFileToken">>
      [] kind = ExpressionStatement -> <<"expression">>
      [] kind \in {CallExpression, NewExpression} -> <<"expression", "arguments">>
      [] kind = PropertyAccessExpression -> <<"expression", "name">>
      [] kind = ConditionalExpression ->
            <<"condition", "questionToken", "whenTrue", "colonToken", "whenFalse">>
      [] kind = BinaryExpression -> <<"left", "operatorToken", "right">>
      [] kind = ArrayLiteralExpression -> <<"elements">>
      [] kind = ObjectLiteralExpression -> <<"properties">>
      [] OTHER -> <<>>

\* node.forEachChild: the children of a node, the nodes of a node array
\* one by one
Children(node) ==
    LET fs == ChildFields(node.kind)
        F[i \in 0..Len(fs)] ==
            IF i = 0 THEN <<>>
            ELSE F[i - 1] \o (IF IsArray(node.f[fs[i]])
                              THEN node.f[fs[i]].elems
                              ELSE <<node.f[fs[i]]>>)
    IN F[Len(fs)]

\* object[key], undefined on undefined (as _.get reads it)
GetField(v, k) ==
    IF v.ty = "node" /\ k \in DOMAIN v.f THEN v.f[k] ELSE Undef

RECURSIVE Get(_, _)
\* _.get(object, path), the path given by its property names
Get(v, path) ==
    IF path = <<>> THEN v ELSE Get(GetField(v, Head(path)), Tail(path))

validFields ==
    << <<"text">>,
       <<"expression", "escapedText">>,
       <<"name", "escapedText">>,
       <<"expression", "name", "escapedText">>,
       <<"left", "expression", "name", "escapedText">>,
       <<"right", "expression", "name", "escapedText">>,
       <<"head", "text">>,
       <<"condition", "expression", "name", "escapedText">>,
       <<"condition", "expression", "escapedText">>,
       <<"condition", "escapedText">>,
       <<"whenTrue", "text">>,
       <<"whenFalse", "text">> >>

Chars_instant == <<"i", "n", "s", "t", "a", "n", "t">>

\* the test of lines 100-101, without the test of the kind
ActivatedWhateverKind(node) ==
    /\ Truthy(GetField(node, "expression"))
    /\ Truthy(Get(node, <<"expression", "name">>))
    /\ Get(node, <<"expression", "name", "escapedText">>) = Str(Chars_instant)

\* the test of lines 100-101
Activated(node) ==
    /\ Truthy(GetField(node, "expression")) /\ node.kind = CallExpression
    /\ Truthy(Get(node, <<"expression", "name">>))
    /\ Get(node, <<"expression", "name", "escapedText">>) = Str(Chars_instant)

\* const [fnArguments] = node.arguments; the nodes the keys are taken from
ArgumentNodes(node) ==
    LET fnArguments == IF node.f.arguments.elems = <<>> THEN Undef
                       ELSE node.f.arguments.elems[1]
    IN IF IsArray(fnArguments) THEN fnArguments.elems ELSE <<fnArguments>>

\* the callback of argumentNodes.map (lines 104-134): a string, an array of
\* the elements' texts, or a TypeError
TranslationKey(node) ==
    LET found == {i \in 1..Len(validFields) : Truthy(Get(node, validFields[i]))}
        field == IF found = {} THEN <<"undefined">>
                 ELSE validFields[CHOOSE i \in found : \A j \in found : i <= j]
        name  == Get(node, field)
        elems == GetField(node, "elements")
        elements ==
            IF Truthy(elems)
            THEN Arr([i \in 1..Len(elems.elems) |-> GetField(elems.elems[i], "text")])
            ELSE elems
    IN IF Truthy(name) THEN name
       ELSE IF node.ty = "undefined" THEN Threw
       ELSE IF Truthy(elements) /\ Len(elements.elems) > 0 THEN elements
       ELSE IF prettifyKey(name).ty = "throw" THEN Threw
       ELSE Str(UNABLE_TO_RESOLVE_VALUE \o <<":">> \o prettifyKey(name).s)

\* the keys of one activated call
TranslationKeys(node) ==
    [i \in 1..Len(ArgumentNodes(node)) |-> TranslationKey(ArgumentNodes(node)[i])]

RECURSIVE Flat(_)
\* Array.prototype.flat(): the elements of the arrays in place of the arrays
Flat(rs) ==
    IF rs = <<>> THEN <<>>
    ELSE (IF IsArray(Head(rs)) THEN Head(rs).elems ELSE <<Head(rs)>>)
         \o Flat(Tail(rs))

---------------------------------------------------------------------------
(* Specification of parseTSAst on one file: a sequence of at most          *)
(* MaxStatements expression statements                                     *)

MaxStatements == 2

Chars_a_b == <<"a", ".", "b">>

Chars_c_d == <<"c", ".", "d">>

Chars_k1 == <<"k", "1">>

Chars_k2 == <<"k", "2">>

\* this.translate, the object the translation function is called on
Translate == Access(This, <<"t">>)

\* the first arguments of the calls of the model
Arguments ==
    { Lit(Chars_a_b),                                             \* 'a.b'
      Lit(<<>>),                                                  \* ''
      Ident(<<"k">>),                                             \* k
      Access(This, <<"k">>),                                      \* this.k
      Cond(Ident(<<"c">>), Lit(Chars_a_b), Lit(Chars_c_d)),       \* c ? 'a.b' : 'c.d'
      Cond(Access(Ident(<<"x">>), <<"c">>),
           Lit(Chars_a_b), Lit(Chars_c_d)),                       \* x.c ? 'a.b' : 'c.d'
      Cond(Binary(Ident(<<"x">>), Ident(<<"y">>)),
           Lit(Chars_a_b), Lit(Chars_c_d)),                       \* x > y ? 'a.b' : 'c.d'
      ArrayLit(<<Lit(Chars_k1), Lit(Chars_k2)>>),                 \* ['k1', 'k2']
      ArrayLit(<<Access(Ident(<<"x">>), <<"y">>), Lit(Chars_k2)>>), \* [x.y, 'k2']
      ArrayLit(<<>>),                                             \* []
      ObjectLit,                                                  \* {}
      Call(Access(Translate, Chars_instant), <<Lit(Chars_a_b)>>) } \* a nested call

\* the expressions of the statements of the model
Expressions ==
    {Call(Access(Translate, Chars_instant), <<a>>) : a \in Arguments}
    \cup
    { Call(Access(Translate, Chars_instant), <<>>),
      Call(Access(Translate, Chars_instant), <<Lit(Chars_a_b), Lit(Chars_c_d)>>),
      Call(Ident(Chars_instant), <<Lit(Chars_a_b)>>),              \* instant('a.b')
      Call(Access(Translate, <<"I", "n", "s", "t", "a", "n", "t">>),
           <<Lit(Chars_a_b)>>),                                    \* Instant
      Call(Access(Translate, <<"g", "e", "t">>), <<Lit(Chars_a_b)>>),
      New(Access(Translate, Chars_instant), <<Lit(Chars_a_b)>>),
      Call(Ident(<<"f">>),
           <<Call(Access(Translate, Chars_instant), <<Lit(Chars_a_b)>>)>>) }

Files ==
    {File([i \in 1..Len(es) |-> ExprStatement(es[i])]) :
        es \in UNION {[1..n -> Expressions] : n \in 0..MaxStatements}}

TsInit ==
    /\ PipeIdle /\ HtmlIdle /\ ResIdle
    /\ rootNode \in Files
    /\ tsStack = <<rootNode>>
    /\ parseResults = <<>>
    /\ tsTranslationsKeys = <<>>
    /\ callLog = <<>>
    /\ visited = <<>>
    /\ tsPc = "parse"

\* a TypeError is thrown while the keys of the call are computed
Throws(node) ==
    Activated(node) /\
    \E i \in 1..Len(TranslationKeys(node)) : TranslationKeys(node)[i].ty = "throw"

\* parseFiles(node) up to its calls on the children: the node's keys are
\* pushed when it is an activated call, and its children come next
VisitNode ==
    /\ tsPc = "parse"
    /\ tsStack # <<>>
    /\ ~Throws(Head(tsStack))
    /\ LET node == Head(tsStack)
       IN /\ parseResults' =
                IF Activated(node) THEN parseResults \o TranslationKeys(node)
                ELSE parseResults
          /\ callLog' =
                IF Activated(node)
                THEN Append(callLog, [node |-> node, keys |-> TranslationKeys(node)])
                ELSE callLog
          /\ visited' = Append(visited, node)
          /\ tsStack' = Children(node) \o Tail(tsStack)
    /\ UNCHANGED <<rootNode, tsTranslationsKeys, tsPc, pipeVars, htmlVars, resVars>>

\* parseFiles(node) on an activated call whose keys throw: nothing catches
\* the TypeError and the program ends
VisitThrows ==
    /\ tsPc = "parse"
    /\ tsStack # <<>>
    /\ Throws(Head(tsStack))
    /\ tsPc' = "threw"
    /\ UNCHANGED <<rootNode, tsStack, parseResults, tsTranslationsKeys, callLog,
                   visited, pipeVars, htmlVars, resVars>>

\* parseTSAst returns and its result is flattened (line 15)
TsReturn ==
    /\ tsPc = "parse"
    /\ tsStack = <<>>
    /\ tsTranslationsKeys' = Flat(parseResults)
    /\ tsPc' = "done"
    /\ UNCHANGED <<rootNode, tsStack, parseResults, callLog, visited,
                   pipeVars, htmlVars, resVars>>

TsNext == VisitNode \/ VisitThrows \/ TsReturn

TsSpec == TsInit /\ [][TsNext]_vars

---------------------------------------------------------------------------
(* Claims about parseTSAst *)

\* the first argument of a call, undefined when it has none
FirstArgument(call) ==
    IF call.f.arguments.elems = <<>> THEN Undef ELSE call.f.arguments.elems[1]

\* a non-empty string literal
IsTextLiteral(n) ==
    n.ty = "node" /\ n.kind = StringLiteral /\ n.f.text.s # <<>>

\* cond ? 'a.b' : 'c.d', both branches non-empty string literals
IsTernaryOfLiterals(n) ==
    /\ n.ty = "node" /\ n.kind = ConditionalExpression
    /\ IsTextLiteral(n.f.whenTrue) /\ IsTextLiteral(n.f.whenFalse)

\* a call x.instant(...): the callee is a member access named instant
InstantMemberCall(n) ==
    /\ n.kind = CallExpression
    /\ n.f.expression.kind = PropertyAccessExpression
    /\ n.f.expression.f.name.f.escapedText = Str(Chars_instant)

\* a call whose callee is named instant: x.instant(...) or instant(...)
InstantNamedCall(n) ==
    /\ n.kind = CallExpression
    /\ \/ InstantMemberCall(n)
       \/ /\ n.f.expression.kind = Identifier
          /\ n.f.expression.f.escapedText = Str(Chars_instant)

LoggedNodes == [i \in 1..Len(callLog) |-> callLog[i].node]

RECURSIVE LoggedKeys(_)
LoggedKeys(log) ==
    IF log = <<>> THEN <<>> ELSE Head(log).keys \o LoggedKeys(Tail(log))

LiteralYieldsItsText ==
    \A i \in 1..Len(callLog) :
        IsTextLiteral(FirstArgument(callLog[i].node))
           => callLog[i].keys = <<FirstArgument(callLog[i].node).f.text>>

\* C1: an activated call whose single argument is a ternary with two
\* non-empty string literals as branches yields the text of the true branch,
\* whatever the condition
TernaryYieldsTrueBranch ==
    \A i \in 1..Len(callLog) :
        LET arg == FirstArgument(callLog[i].node)
        IN IsTernaryOfLiterals(arg) => callLog[i].keys = <<arg.f.whenTrue.f.text>>

\* the first argument matches no shape probe and has no array of elements
Unmatched(arg) ==
    /\ \A i \in 1..Len(validFields) : ~Truthy(Get(arg, validFields[i]))
    /\ ~Truthy(GetField(arg, "elements")) \/ GetField(arg, "elements").elems = <<>>

RECURSIVE Preorder(_)
\* the nodes of a tree, each before its children
Preorder(n) ==
    LET cs == Children(n)
        F[i \in 0..Len(cs)] == IF i = 0 THEN <<>> ELSE F[i - 1] \o Preorder(cs[i])
    IN <<n>> \o F[Len(cs)]

\* C2: a structural mismatch never aborts the extraction: no error is
\* raised, an activated call whose first argument matches no probe and has
\* no element array yields one UnresolvedMarker, and every node of the tree
\* is visited
MismatchNeverAborts ==
    /\ tsPc # "threw"
    /\ \A i \in 1..Len(callLog) :
          Unmatched(FirstArgument(callLog[i].node))
             => /\ Len(callLog[i].keys) = 1
                /\ callLog[i].keys[1].ty = "string"
                /\ IsMarker(callLog[i].keys[1].s)
    /\ tsPc = "done" => visited = Preorder(rootNode)

ArrayArgumentYieldsStrings ==
    /\ \A i \in 1..Len(callLog) :
          LET arg == FirstArgument(callLog[i].node)
          IN (arg.ty = "node" /\ arg.kind = ArrayLiteralExpression)
                => /\ callLog[i].keys =
                         <<Arr([j \in 1..Len(arg.f.elements.elems) |->
                                   GetField(arg.f.elements.elems[j], "text")])>>
                   /\ \A j \in 1..Len(arg.f.elements.elems) :
                         Truthy(GetField(arg.f.elements.elems[j], "text"))
    /\ tsPc = "done" =>
          \A i \in 1..Len(tsTranslationsKeys) : tsTranslationsKeys[i].ty = "string"

====
